---- MODULE Spec2Model ----
(***************************************************************************)
(* Recipe condition checks of strautomator-core.                           *)
(*                                                                         *)
(* The repository holds two implementations of the checkers:               *)
(*   src/src/recipes/conditions.ts   (operators suffixed _conditions)      *)
(*   src/unnamed/part_001            (operators suffixed _part001)         *)
(* Each checker is a function of (activity, condition) to a verdict or a   *)
(* raised error; checkWeather, checkSpotify and checkFirstOfDay also take  *)
(* the user and await one external lookup.  The state holds one activity,  *)
(* one condition, the user, what the lookups answer, the evaluation in     *)
(* flight, the outcome of the last checker evaluated and the outcomes of   *)
(* the evaluations completed so far.                                       *)
(*                                                                         *)
(* Units: plain numbers are held in hundredths (1.04 is 104), coordinates  *)
(* in micro-degrees (0.000556 is 556), times in seconds, the UTC offset in *)
(* minutes.  Arithmetic on them is exact.  Strings are sequences of        *)
(* one-character strings.                                                  *)
(***************************************************************************)
EXTENDS Integers, Sequences, FiniteSets, TLC

VARIABLES activity, condition, user, sameSport, world, call, result, seen

vars == <<activity, condition, user, sameSport, world, call, result, seen>>

-----------------------------------------------------------------------------
(* JavaScript values *)

\* Every value has the same shape: its type t, and, by type, a number n, a
\* string s, an array of numbers a, or the deltas p of an encoded polyline.
Value(t, n, str, a, p) == [t |-> t, n |-> n, s |-> str, a |-> a, p |-> p]

Nil == Value("nil", 0, <<>>, <<>>, <<>>)

Str(s) == Value("str", 0, s, <<>>, <<>>)

Num(n) == Value("num", n, <<>>, <<>>, <<>>)

Arr(a) == Value("arr", 0, <<>>, a, <<>>)

Date(n) == Value("date", n, <<>>, <<>>, <<>>)

\* An object with an id, such as an activity's gear.
Obj(id) == Value("obj", 0, id, <<>>, <<>>)

\* An encoded polyline, a string.
Polyline(p) == Value("polyline", 0, <<>>, <<>>, p)

isNil(x) == x.t = "nil"

isArray(x) == x.t = "arr"

\* A number of the program: NaN, or a finite value n.
NaN == [nan |-> TRUE, n |-> 0]

Fin(n) == [nan |-> FALSE, n |-> n]

\* Comparisons of JavaScript numbers: every comparison with NaN is false.
Lt(x, y) == ~x.nan /\ ~y.nan /\ x.n < y.n

Le(x, y) == ~x.nan /\ ~y.nan /\ x.n <= y.n

Gt(x, y) == Lt(y, x)

Ge(x, y) == Le(y, x)

Plus(x, y) == IF x.nan \/ y.nan THEN NaN ELSE Fin(x.n + y.n)

Minus(x, y) == IF x.nan \/ y.nan THEN NaN ELSE Fin(x.n - y.n)

Abs(n) == IF n < 0 THEN -n ELSE n

-----------------------------------------------------------------------------
(* The operators of a condition *)

Equal == "Equal"

NotEqual == "NotEqual"

Like == "Like"

NotLike == "NotLike"

Approximate == "Approximate"

GreaterThan == "GreaterThan"

LessThan == "LessThan"

RecipeOperator == {Equal, NotEqual, Like, NotLike, Approximate, GreaterThan, LessThan}

\* What a checker ends in: a returned verdict, or a raised error.
Ret(b) == IF b THEN "true" ELSE "false"

Raised == "raised"

-----------------------------------------------------------------------------
(* Strings *)

LowerChar(c) == CASE c = "A" -> "a"
                  [] c = "B" -> "b"
                  [] c = "R" -> "r"
                  [] OTHER -> c

\* toLowerCase with the lowering left out.
toLowerCase_asIs(s) == s

toLowerCase(s) == [i \in 1..Len(s) |-> LowerChar(s[i])]

includes(s, sub) ==
    \E i \in 0..(Len(s) - Len(sub)) : SubSeq(s, i + 1, i + Len(sub)) = sub

\* value.toString(): a string is itself.
toString(x) == x.s

-----------------------------------------------------------------------------
(* checkText *)

checkText_conditions(a, c) ==
    LET prop == c.property
        op == c.operator
    IN  IF isNil(a[prop]) THEN Ret(FALSE)
        ELSE LET aText == toLowerCase(toString(a[prop]))
                 value == toLowerCase(toString(c.value))
                 valid == \/ op = Equal /\ aText = value
                          \/ op = Like /\ includes(aText, value)
                          \/ op = NotLike /\ ~includes(aText, value)
             IN  Ret(valid)

checkText_part001(a, c) ==
    LET prop == c.property
        op == c.operator
    IN  IF isNil(a[prop]) THEN Ret(FALSE)
        ELSE LET value == toLowerCase(toString(c.value))
                 aText == toLowerCase(toString(a[prop]))
             IN  IF op = Equal /\ aText # value THEN Ret(FALSE)
                 ELSE IF op = Like /\ ~includes(aText, value) THEN Ret(FALSE)
                 ELSE IF op = NotLike /\ includes(aText, value) THEN Ret(FALSE)
                 ELSE IF op = GreaterThan \/ op = LessThan THEN Raised
                 ELSE Ret(TRUE)

-----------------------------------------------------------------------------
(* Parsing and rounding of numbers *)

DigitChars == <<"0", "1", "2", "3", "4", "5", "6", "7", "8", "9">>

IsDigit(c) == \E i \in 1..Len(DigitChars) : DigitChars[i] = c

DigitVal(c) == (CHOOSE i \in 1..Len(DigitChars) : DigitChars[i] = c) - 1

\* The length of the longest prefix of s made of digits.
RECURSIVE DigitPrefix(_)
DigitPrefix(s) ==
    IF s # <<>> /\ IsDigit(Head(s)) THEN 1 + DigitPrefix(Tail(s)) ELSE 0

\* The number a sequence of digits writes.
RECURSIVE DigitsValue(_)
DigitsValue(s) ==
    IF s = <<>> THEN 0 ELSE 10 * DigitsValue(SubSeq(s, 1, Len(s) - 1)) + DigitVal(s[Len(s)])

\* The fraction the first d digits of s write after the point, in units of
\* 10^-d (the strings of the model carry at most d decimals).
RECURSIVE FractionValue(_, _)
FractionValue(s, d) ==
    IF d = 0 THEN 0
    ELSE 10 * FractionValue(s, d - 1) + (IF Len(s) >= d THEN DigitVal(s[d]) ELSE 0)

RECURSIVE Pow10(_)
Pow10(d) == IF d = 0 THEN 1 ELSE 10 * Pow10(d - 1)

\* parseFloat of a string, in units of 10^-d: an optional sign, digits, and an
\* optional point and digits, up to the first character that fits none; NaN
\* when it has no digit.
parseDecimal(s, d) ==
    LET neg == s # <<>> /\ Head(s) = "-"
        body == IF neg THEN Tail(s) ELSE s
        k == DigitPrefix(body)
        rest == SubSeq(body, k + 1, Len(body))
        hasPoint == rest # <<>> /\ Head(rest) = "."
        frac == IF hasPoint THEN Tail(rest) ELSE <<>>
        f == DigitPrefix(frac)
        mag == Pow10(d) * DigitsValue(SubSeq(body, 1, k)) + FractionValue(SubSeq(frac, 1, f), d)
    IN  IF k = 0 /\ f = 0 THEN NaN
        ELSE Fin(IF neg THEN -mag ELSE mag)

\* parseFloat(x) of a condition value, in hundredths: a number is itself.
parseFloat(x) ==
    IF x.t = "num" THEN Fin(x.n)
    ELSE IF x.t # "str" THEN NaN
    ELSE parseDecimal(x.s, 2)

\* parseInt(x): a whole number is itself; a string is read as an optional sign
\* and digits up to the first character that is no digit; NaN when it has none.
parseInt(x) ==
    IF x.t = "num" THEN Fin(x.n)
    ELSE IF x.t # "str" THEN NaN
    ELSE LET s == x.s
             neg == s # <<>> /\ Head(s) = "-"
             body == IF neg THEN Tail(s) ELSE s
             k == DigitPrefix(body)
             mag == DigitsValue(SubSeq(body, 1, k))
         IN  IF k = 0 THEN NaN
             ELSE Fin(IF neg THEN -mag ELSE mag)

\* x.toFixed(1) of a number in hundredths: the sign and the tenths nearest to
\* the magnitude, a tie going to the larger; "NaN" for NaN.
toFixed1(x) ==
    IF x.nan THEN [nan |-> TRUE, neg |-> FALSE, tenths |-> 0]
    ELSE [nan |-> FALSE, neg |-> x.n < 0, tenths |-> (Abs(x.n) + 5) \div 10]

\* Math.round(x) of a number in hundredths, in units: the nearest integer, a
\* tie going up.
round(x) == IF x.nan THEN NaN ELSE Fin((x.n + 50) \div 100)

\* x != y of two numbers: NaN differs from everything.
Ne(x, y) == x.nan \/ y.nan \/ x.n # y.n

Times(x, k) == IF x.nan THEN NaN ELSE Fin(x.n * k)

-----------------------------------------------------------------------------
(* checkNumber *)

\* The array's length replaces an array.
lengthIfArray(x) == IF isArray(x) THEN Num(100 * Len(x.a)) ELSE x

\* value <= aNumber + diff && value >= aNumber - diff, diff = value * pct / 100.
withinPercent(aNumber, value, pct) ==
    LET diff == Times(value, pct)
    IN  /\ Le(Times(value, 100), Plus(Times(aNumber, 100), diff))
        /\ Ge(Times(value, 100), Minus(Times(aNumber, 100), diff))

\* value < aNumber + diff && value > aNumber - diff, diff = value * pct / 100.
strictlyWithinPercent(aNumber, value, pct) ==
    LET diff == Times(value, pct)
    IN  /\ Lt(Times(value, 100), Plus(Times(aNumber, 100), diff))
        /\ Gt(Times(value, 100), Minus(Times(aNumber, 100), diff))

checkNumber_conditions(a, c) ==
    LET prop == c.property
        op == c.operator
        field == lengthIfArray(a[prop])
    IN  IF isNil(field) THEN Ret(FALSE)
        ELSE LET aNumber == Fin(field.n)
                 value == parseFloat(c.value)
                 valid ==
                    IF op = Equal THEN toFixed1(aNumber) = toFixed1(value)
                    ELSE IF op = NotEqual THEN toFixed1(aNumber) # toFixed1(value)
                    ELSE IF op = Approximate THEN withinPercent(aNumber, value, 3)
                    ELSE IF op = Like THEN withinPercent(aNumber, value, 10)
                    ELSE IF op = LessThan THEN Lt(aNumber, value)
                    ELSE IF op = GreaterThan THEN Gt(aNumber, value)
                    ELSE FALSE
             IN  Ret(valid)

checkNumber_part001(a, c) ==
    LET prop == c.property
        op == c.operator
        value == parseFloat(c.value)
        field == lengthIfArray(a[prop])
    IN  IF isNil(field) THEN Ret(FALSE)
        ELSE LET aNumber == Fin(field.n)
             IN  IF op = Like THEN Ret(strictlyWithinPercent(aNumber, value, 10))
                 ELSE IF op = Equal /\ Ne(round(aNumber), round(value)) THEN Ret(FALSE)
                 ELSE IF op = GreaterThan /\ Le(aNumber, value) THEN Ret(FALSE)
                 ELSE IF op = LessThan /\ Ge(aNumber, value) THEN Ret(FALSE)
                 ELSE Ret(TRUE)

-----------------------------------------------------------------------------
(* Lists and truthiness *)

\* s.split(","): the pieces of s between the commas.
RECURSIVE split(_)
split(s) ==
    IF \A i \in 1..Len(s) : s[i] # ","
    THEN <<s>>
    ELSE LET i == CHOOSE j \in 1..Len(s) : s[j] = "," /\ \A k \in 1..(j - 1) : s[k] # ","
         IN  <<SubSeq(s, 1, i - 1)>> \o split(SubSeq(s, i + 1, Len(s)))

\* arr.includes(x) and arr.indexOf(x) >= 0 of an array.
arrayIncludes(arr, x) == \E i \in 1..Len(arr) : arr[i] = x

\* Whether a value counts as true in a condition: null, undefined, 0 and the
\* empty string do not; an array, empty or not, a date and an object do.
truthy(x) ==
    CASE x.t = "nil" -> FALSE
      [] x.t \in {"num", "bool"} -> x.n # 0
      [] x.t = "str" -> x.s # <<>>
      [] x.t = "polyline" -> x.p # <<>>
      [] OTHER -> TRUE

-----------------------------------------------------------------------------
(* checkLocation *)

EqualRadius == 556

ApproximateRadius == 2735

LikeRadius == 5926

\* polyline.decode(str): the points of an encoded polyline, each the sum of
\* the deltas up to it (held in units of 0.00001 degree), in micro-degrees.
RECURSIVE decodeFrom(_, _, _)
decodeFrom(deltas, lat, lng) ==
    IF deltas = <<>> THEN <<>>
    ELSE LET la == lat + Head(deltas)[1]
             ln == lng + Head(deltas)[2]
         IN  << <<Fin(10 * la), Fin(10 * ln)>> >> \o decodeFrom(Tail(deltas), la, ln)

decode(p) == decodeFrom(p.p, 0, 0)

\* arr[i] of a JavaScript array of numbers, counted from 0: undefined (NaN in
\* a comparison) past its end.
at(arr, i) == IF i < Len(arr) THEN Fin(arr[i + 1]) ELSE NaN

\* parseFloat(arr[i]) of the pieces of the condition value, in micro-degrees.
parseCoordinate(arr, i) == IF i < Len(arr) THEN parseDecimal(arr[i + 1], 6) ELSE NaN

\* The bounding box test with the edges of the box left out.
inBox_strict(pt, cLat, cLong, radius) ==
    /\ Lt(pt[1], Plus(cLat, radius))
    /\ Gt(pt[1], Minus(cLat, radius))
    /\ Lt(pt[2], Plus(cLong, radius))
    /\ Gt(pt[2], Minus(cLong, radius))

\* The bounding box test on one coordinate pair.
inBox(pt, cLat, cLong, radius) ==
    /\ Le(pt[1], Plus(cLat, radius))
    /\ Ge(pt[1], Minus(cLat, radius))
    /\ Le(pt[2], Plus(cLong, radius))
    /\ Ge(pt[2], Minus(cLong, radius))

checkLocation_conditions(a, c) ==
    LET prop == c.property
        op == c.operator
    IN  IF isNil(a[prop]) THEN Ret(FALSE)
        ELSE LET coordinates ==
                    IF prop = "polyline" THEN decode(a.polyline)
                    ELSE << <<at(a[prop].a, 0), at(a[prop].a, 1)>> >>
                 radius == IF op = Equal THEN Fin(EqualRadius)
                           ELSE IF op = Approximate THEN Fin(ApproximateRadius)
                           ELSE IF op = Like THEN Fin(LikeRadius)
                           ELSE NaN
                 arr == split(toString(c.value))
                 cLat == parseCoordinate(arr, 0)
                 cLong == parseCoordinate(arr, 1)
             IN  Ret(\E i \in 1..Len(coordinates) : inBox(coordinates[i], cLat, cLong, radius))

checkLocation_part001(a, c) ==
    LET prop == c.property
        op == c.operator
    IN  IF ~truthy(a[prop]) THEN Ret(FALSE)
        ELSE LET arr == split(toString(c.value))
                 cLat == parseCoordinate(arr, 0)
                 cLong == parseCoordinate(arr, 1)
                 fallback == prop = "locationEnd" /\ truthy(a.polyline) /\ Len(a.locationEnd.a) = 0
                 coordinates ==
                    IF fallback THEN LET d == decode(a.polyline) IN <<d[Len(d)]>>
                    ELSE IF prop = "polyline" THEN decode(a.polyline)
                    ELSE << <<at(a[prop].a, 0), at(a[prop].a, 1)>> >>
             IN  IF ~fallback /\ prop # "polyline" /\ Len(a[prop].a) = 0 THEN Ret(FALSE)
                 ELSE IF op \notin {Equal, Approximate, Like} THEN Raised
                 ELSE LET radius == IF op = Equal THEN Fin(EqualRadius)
                                    ELSE IF op = Approximate THEN Fin(ApproximateRadius)
                                    ELSE Fin(LikeRadius)
                      IN  Ret(\E i \in 1..Len(coordinates) :
                                 inBox(coordinates[i], cLat, cLong, radius))

-----------------------------------------------------------------------------
(* Dates *)

\* dayjs.utc(x) as seconds since 1970-01-01T00:00:00Z: a date is its instant,
\* a number is read as milliseconds.
utc(x) == IF x.t = "date" THEN x.n ELSE x.n \div 1000

\* aDate.add(n, "minutes")
addMinutes(t, n) == t + 60 * n

second(t) == t % 60

minute(t) == (t \div 60) % 60

hour(t) == (t \div 3600) % 24

\* aDate.day(): 0 is Sunday; 1970-01-01 was a Thursday.
day(t) == ((t \div 86400) + 4) % 7

\* The start date moved by utcStartOffset minutes, when the offset is set and not 0.
startDate(a, prop) ==
    IF prop = "dateStart" /\ truthy(a.utcStartOffset)
    THEN addMinutes(utc(a[prop]), a.utcStartOffset.n)
    ELSE utc(a[prop])

secondsOfDay(t) == second(t) + minute(t) * 60 + hour(t) * 3600

-----------------------------------------------------------------------------
(* checkTimestamp *)

\* prop.indexOf("pace") == 0
startsWithPace(prop) == prop \in {"pace"}

\* prop.includes("Time")
includesTime(prop) == prop \in {"movingTime"}

within(aTime, value, buffer) ==
    /\ Ge(aTime, Minus(value, Fin(buffer)))
    /\ Le(aTime, Plus(value, Fin(buffer)))

checkTimestamp_conditions(a, c) ==
    LET prop == c.property
        op == c.operator
    IN  IF isNil(a[prop]) THEN Ret(FALSE)
        ELSE LET isPace == startsWithPace(prop)
                 isTime == includesTime(prop)
                 eqBuffer == IF isPace THEN 1 ELSE 60
                 approxBuffer == IF isPace THEN 20 ELSE 600
                 likeBuffer == IF isPace THEN 60 ELSE 1800
                 aTime == IF isPace \/ isTime THEN Fin(a[prop].n)
                          ELSE Fin(secondsOfDay(startDate(a, prop)))
                 value == parseInt(c.value)
                 valid ==
                    IF op = Equal THEN within(aTime, value, eqBuffer)
                    ELSE IF op = Approximate THEN within(aTime, value, approxBuffer)
                    ELSE IF op = Like THEN within(aTime, value, likeBuffer)
                    ELSE IF op = LessThan THEN Lt(aTime, value)
                    ELSE IF op = GreaterThan THEN Gt(aTime, value)
                    ELSE FALSE
             IN  Ret(valid)

checkTimestamp_part001(a, c) ==
    LET prop == c.property
        op == c.operator
    IN  IF ~truthy(a[prop]) THEN Ret(FALSE)
        ELSE LET value == parseInt(c.value)
                 aTime == IF includesTime(prop) THEN Fin(a[prop].n)
                          ELSE Fin(secondsOfDay(startDate(a, prop)))
                 valid ==
                    IF op = GreaterThan THEN Gt(aTime, value)
                    ELSE IF op = LessThan THEN Lt(aTime, value)
                    ELSE IF op = Equal THEN within(aTime, value, 120)
                    ELSE IF op = Approximate THEN within(aTime, value, 600)
                    ELSE IF op = Like THEN within(aTime, value, 1800)
                    ELSE TRUE
             IN  Ret(valid)

-----------------------------------------------------------------------------
(* checkSportType, checkGear, checkWeekday *)

checkSportType_conditions(a, c) ==
    LET op == c.operator
        sportType == IF truthy(a.sportType) THEN toString(a.sportType) ELSE <<>>
        arrValue == split(toString(c.value))
        valid == IF op = Equal THEN arrayIncludes(arrValue, sportType)
                 ELSE IF op = NotEqual THEN sportType = <<>> \/ ~arrayIncludes(arrValue, sportType)
                 ELSE FALSE
    IN  Ret(valid)

checkSportType_part001(a, c) ==
    LET op == c.operator
    IN  IF ~truthy(a.sportType) THEN Ret(FALSE)
        ELSE LET value == toString(c.value)
                 sportType == toString(a.sportType)
             IN  IF op = Equal
                 THEN Ret(value = sportType \/ arrayIncludes(split(value), sportType))
                 ELSE Raised

checkGear_conditions(a, c) ==
    LET op == c.operator
        gear == IF truthy(a.gear) THEN a.gear.s ELSE <<>>
        arrValue == split(toString(c.value))
        valid == IF op = Equal THEN arrayIncludes(arrValue, gear)
                 ELSE IF op = NotEqual THEN gear = <<>> \/ ~arrayIncludes(arrValue, gear)
                 ELSE FALSE
    IN  Ret(valid)

\* aDate.day().toString()
weekdayString(a) ==
    LET aDate == IF truthy(a.utcStartOffset)
                 THEN addMinutes(utc(a.dateStart), a.utcStartOffset.n)
                 ELSE utc(a.dateStart)
    IN  <<DigitChars[day(aDate) + 1]>>

checkWeekday_conditions(a, c) ==
    LET op == c.operator
    IN  IF ~truthy(a.dateStart) THEN Ret(FALSE)
        ELSE LET weekday == weekdayString(a)
                 arrValue == split(toString(c.value))
                 valid == IF op = Equal THEN arrayIncludes(arrValue, weekday)
                          ELSE IF op = NotEqual THEN ~arrayIncludes(arrValue, weekday)
                          ELSE FALSE
             IN  Ret(valid)

checkWeekday_part001(a, c) ==
    LET op == c.operator
    IN  IF ~truthy(a.dateStart) THEN Ret(FALSE)
        ELSE LET value == toString(c.value)
                 weekday == weekdayString(a)
             IN  IF op = Equal
                 THEN Ret(value = weekday \/ arrayIncludes(split(value), weekday))
                 ELSE Raised

-----------------------------------------------------------------------------
(* Lookups of the asynchronous checkers *)

Bool(b) == Value("bool", IF b THEN 1 ELSE 0, <<>>, <<>>, <<>>)

\* The answer of an external lookup has status "ok" with a result, "null"
\* with none, or "error" when the lookup fails and the awaited promise
\* rejects.

\* No evaluation in flight.  While a checker awaits its lookup, pc is
\* "awaiting"; fetches counts the lookups the last evaluation started has
\* issued, and after, before hold the query of a history lookup.
Idle == [pc |-> "idle", fetches |-> 0, after |-> Nil, before |-> Nil]

Awaiting(after, before) ==
    [pc |-> "awaiting", fetches |-> 1, after |-> after, before |-> before]

-----------------------------------------------------------------------------
(* checkWeather *)

\* A checker that takes every activity to have a location.
hasLocation_always(a) == TRUE

\* if (!activity.hasLocation) return false
hasLocation(a) == truthy(a.hasLocation)

\* prop.split(".")[1]
weatherProp(prop) == IF prop = "weather.temperature" THEN "temperature" ELSE "none"

\* isNaN(s) of a string of digits, points and minus signs: Number(s) is a
\* number for the empty string and for an optional sign and digits with at
\* most one point and at least one digit, and NaN otherwise.
isNaN(s) ==
    LET neg == s # <<>> /\ Head(s) = "-"
        body == IF neg THEN Tail(s) ELSE s
        k == DigitPrefix(body)
        rest == SubSeq(body, k + 1, Len(body))
        hasPoint == rest # <<>> /\ Head(rest) = "."
        frac == IF hasPoint THEN Tail(rest) ELSE <<>>
        f == DigitPrefix(frac)
    IN  ~(s = <<>> \/ (k + f > 0 /\ f = Len(frac) /\ (hasPoint \/ rest = <<>>)))

\* The number weatherPropValue stands for in a comparison, in hundredths:
\* the string is stripped of all but digits, points and minus signs, and
\* parseFloat is taken of it when that is numeric; otherwise the string
\* stays, and compared with a number it counts as NaN.
weatherPropValue(s) ==
    LET stripped == SelectSeq(s, LAMBDA ch : IsDigit(ch) \/ ch \in {".", "-"})
    IN  IF isNaN(stripped) THEN NaN ELSE parseDecimal(stripped, 2)

\* x == y of two numbers.
Eq(x, y) == ~x.nan /\ ~y.nan /\ x.n = y.n

\* One round of the loop of part_001 over a sample, from the verdict so far:
\* a sample that is null or lacks the attribute is passed over; an attribute
\* that is no string has no replace method, which raises.  value is
\* parseInt(condition.value), in hundredths.
sample_part001(valid, sample, c) ==
    IF valid = Raised THEN Raised
    ELSE IF ~sample.present \/ isNil(sample[weatherProp(c.property)]) THEN valid
    ELSE IF sample[weatherProp(c.property)].t # "str" THEN Raised
    ELSE LET value == Times(parseInt(c.value), 100)
             diff == IF value.nan THEN NaN ELSE Fin(value.n \div 10)
             w == weatherPropValue(sample[weatherProp(c.property)].s)
             sofar == valid = Ret(TRUE)
         IN  CASE c.operator = Equal -> Ret(sofar \/ Eq(w, value))
               [] c.operator = Like -> Ret(Lt(value, Plus(w, diff)) /\ Gt(value, Minus(w, diff)))
               [] c.operator = GreaterThan -> Ret(sofar \/ Gt(w, value))
               [] c.operator = LessThan -> Ret(sofar \/ Lt(w, value))
               [] OTHER -> Raised

\* checkWeather of part_001 from the answer of the lookup on: everything
\* after the location test runs inside try/catch, which turns a rejected
\* lookup and any error raised into false.
weather_part001(lookup, c) ==
    IF lookup.status = "error" THEN Ret(FALSE)
    ELSE IF lookup.status = "null" THEN Ret(FALSE)
    ELSE LET valid == sample_part001(sample_part001(Ret(FALSE), lookup.start, c), lookup.end, c)
         IN  IF valid = Raised THEN Ret(FALSE) ELSE valid

\* checkWeather of conditions.ts from the answer of the lookup on: a rejected
\* lookup rejects the evaluation; with an answer, summary[weatherProp] is read
\* while summary is still undefined, which raises a TypeError before the loop
\* over the samples is reached.
weather_conditions(lookup, c) ==
    IF lookup.status = "error" THEN Raised
    ELSE IF lookup.status = "null" THEN Ret(FALSE)
    ELSE Raised

-----------------------------------------------------------------------------
(* checkSpotify *)

\* A checker that takes every user to have a linked account.
hasSpotify_always(u) == TRUE

\* if (!user.spotify) return false
hasSpotify(u) == truthy(u.spotify)

\* checkSpotify from the answer of the lookup on, for a user with a linked
\* account: no answer counts as no tracks; Like and NotLike test each title
\* against itself.
spotify_conditions(lookup, c) ==
    IF lookup.status = "error" THEN Raised
    ELSE LET tracks == IF lookup.status = "null" THEN <<>> ELSE lookup.titles
             titles == [i \in 1..Len(tracks) |-> toLowerCase(tracks[i])]
             value == toLowerCase(toString(c.value))
             valid ==
                 IF Len(tracks) > 0
                 THEN CASE c.operator = Equal -> \E i \in 1..Len(titles) : titles[i] = value
                        [] c.operator = Like -> \E i \in 1..Len(titles) : includes(titles[i], titles[i])
                        [] c.operator = NotLike -> \E i \in 1..Len(titles) : ~includes(titles[i], titles[i])
                        [] OTHER -> FALSE
                 ELSE c.operator = NotLike
         IN  Ret(valid)

-----------------------------------------------------------------------------
(* checkFirstOfDay *)

\* The year and the day of the year, from 1, of day d counted from the first
\* of January of year y.
RECURSIVE yearDay(_, _)
yearDay(d, y) ==
    LET isLeapYear == (y % 4 = 0 /\ y % 100 # 0) \/ y % 400 = 0
        daysInYear == IF isLeapYear THEN 366 ELSE 365
    IN  IF d < daysInYear THEN [year |-> y, dayOfYear |-> d + 1]
        ELSE yearDay(d - daysInYear, y + 1)

year(t) == yearDay(t \div 86400, 1970).year

dayOfYear(t) == yearDay(t \div 86400, 1970).dayOfYear

\* dayjs(user.dateLastActivity || user.dateRegistered).utc()
lastActivityDate(u) ==
    IF truthy(u.dateLastActivity) THEN utc(u.dateLastActivity) ELSE utc(u.dateRegistered)

\* A checker that takes the clock for the date of the last activity.
isFirst_now(a, u) ==
    \/ dayOfYear(utc(a.dateStart)) > dayOfYear(world.now)
    \/ year(utc(a.dateStart)) > year(world.now)

\* The first value of isFirst, before any lookup.
isFirst(a, u) ==
    \/ dayOfYear(utc(a.dateStart)) > dayOfYear(lastActivityDate(u))
    \/ year(utc(a.dateStart)) > year(lastActivityDate(u))

\* Whether the history is looked up: the activity is not first yet, and
\* sameSport is set or lastActivityDate.isAfter(activityDate).
queriesHistory(a, u, same) ==
    ~isFirst(a, u) /\ (same \/ lastActivityDate(u) > utc(a.dateStart))

\* The query awaited: from the start of the activity's day, startOf("day"),
\* and to its end, endOf("day"), unless the day of the year of now is that
\* of the activity.
query(a, now) ==
    LET startOf == utc(a.dateStart) - (utc(a.dateStart) % 86400)
        endOf == startOf + 86399
    IN  Awaiting(Date(startOf),
                 IF dayOfYear(now) # dayOfYear(utc(a.dateStart)) THEN Date(endOf) ELSE Nil)

\* strava.activities.getActivities(user, query): the activities of the
\* user's history that start within the bounds of the query.
getActivities(history, after, before) ==
    SelectSeq(history, LAMBDA e :
        /\ e.dateStart >= after.n
        /\ (isNil(before) \/ e.dateStart <= before.n))

\* _.sortBy(list, "dateStart")[0]: the earliest, and of several that start
\* together the one that comes first in the list.
sortByFirst(list) ==
    list[CHOOSE i \in 1..Len(list) :
            \A j \in 1..Len(list) :
                \/ list[i].dateStart < list[j].dateStart
                \/ (list[i].dateStart = list[j].dateStart /\ i <= j)]

\* isFirst after the lookup: no answer counts as no activities; with sameSport
\* the activities are filtered to those of the activity's sportType.
isFirstOfList(lookup, q, a, same) ==
    LET dayActivities == IF lookup.status = "null" THEN <<>>
                         ELSE getActivities(lookup.list, q.after, q.before)
        activities == IF same
                      THEN SelectSeq(dayActivities, LAMBDA e : Str(e.sportType) = a.sportType)
                      ELSE dayActivities
    IN  Len(activities) = 0 \/ sortByFirst(activities).id = a.id

\* The verdict from isFirst and the condition.
firstOfDayVerdict(first, c) ==
    CASE c.operator = Equal -> Ret(first /\ truthy(c.value))
      [] c.operator = NotEqual -> Ret(~first /\ ~truthy(c.value))
      [] OTHER -> Ret(FALSE)

\* checkFirstOfDay from the answer of the lookup on.
firstOfDay_conditions(lookup, q, a, c, same) ==
    IF lookup.status = "error" THEN Raised
    ELSE firstOfDayVerdict(isFirstOfList(lookup, q, a, same), c)

-----------------------------------------------------------------------------
(* Inputs *)

MaxLen == 2

TextChars == {"a", "A", "b"}

Strings(chars, n) == UNION {[1..k -> chars] : k \in 0..n}

\* An activity with no field set.
NoActivity ==
    [id |-> 1, name |-> Nil, distance |-> Nil,
     locationStart |-> Nil, locationEnd |-> Nil, polyline |-> Nil,
     dateStart |-> Nil, utcStartOffset |-> Nil, movingTime |-> Nil, pace |-> Nil,
     sportType |-> Nil, gear |-> Nil, hasLocation |-> Nil]

TextProps == {"name"}

InitText ==
    /\ \E n \in {Nil} \cup {Str(s) : s \in Strings(TextChars, MaxLen)} :
          activity = [NoActivity EXCEPT !.name = n]
    /\ \E op \in RecipeOperator, v \in Strings(TextChars, MaxLen) :
          condition = [property |-> "name", operator |-> op, value |-> Str(v)]

MaxNum == 120

MaxArr == 2

NumberProps == {"distance"}

\* Condition values given as strings: "1", "1.4", "a", "1a", ".5", "-1", "".
NumberStrings ==
    {<<"1">>, <<"1", ".", "4">>, <<"a">>, <<"1", "a">>, <<".", "5">>, <<"-", "1">>, <<>>}

NumberFields ==
    {Nil} \cup {Num(n) : n \in 0..MaxNum} \cup {Arr([i \in 1..k |-> 1]) : k \in 0..MaxArr}

NumberValues ==
    {Num(10 * k) : k \in 0..(MaxNum \div 10)} \cup {Str(s) : s \in NumberStrings}

InitNumber ==
    /\ \E n \in NumberFields : activity = [NoActivity EXCEPT !.distance = n]
    /\ \E op \in RecipeOperator, v \in NumberValues :
          condition = [property |-> "distance", operator |-> op, value |-> v]

MaxPoly == 2

MaxDay == 1

MaxList == 3

LocationProps == {"locationStart", "locationEnd", "polyline"}

TimestampProps == {"dateStart", "movingTime", "pace"}

\* The target of the location conditions: latitude 1, longitude 2.
TargetLat == 1 * Pow10(6)

TargetLong == 2 * Pow10(6)

\* Distances from the target, in micro-degrees, on both sides of every radius.
Offsets ==
    {0} \cup UNION {{r, r + 1, -r, -(r + 1)} : r \in {EqualRadius, ApproximateRadius, LikeRadius}}

Points == {Arr(<<TargetLat + o, TargetLong + p>>) : o \in Offsets, p \in Offsets}

EndPoints == {Arr(<<TargetLat + o, TargetLong>>) : o \in {0, EqualRadius + 1, LikeRadius + 1}}

\* Encoded polylines: a first delta from the origin, then steps.
FirstDeltas == {<<100000 + o, 200000>> : o \in {0, 56, 1000}}

StepDeltas == {<<0, 0>>, <<-1000, 0>>, <<0, 600>>}

Polylines ==
    {Polyline(<<>>)} \cup
    UNION {{Polyline(<<f>> \o t) : f \in FirstDeltas, t \in [1..k -> StepDeltas]} : k \in 0..(MaxPoly - 1)}

\* Condition values: "1,2", "1.000556,2", "1", "", "a,2", "1,2,3".
LocationStrings ==
    {<<"1", ",", "2">>, <<"1", ".", "0", "0", "0", "5", "5", "6", ",", "2">>, <<"1">>, <<>>,
     <<"a", ",", "2">>, <<"1", ",", "2", ",", "3">>}

InitLocation ==
    /\ \/ \E pt \in {Nil, Arr(<<>>)} \cup Points :
             activity = [NoActivity EXCEPT !.locationStart = pt]
       \/ \E pt \in {Nil, Arr(<<>>)} \cup EndPoints, pl \in {Nil} \cup Polylines :
             activity = [NoActivity EXCEPT !.locationEnd = pt, !.polyline = pl]
    /\ \E prop \in LocationProps, op \in RecipeOperator, v \in LocationStrings :
          /\ (prop = "locationStart") = (activity.locationEnd = Nil /\ activity.polyline = Nil)
          /\ condition = [property |-> prop, operator |-> op, value |-> Str(v)]

\* Clock times around 08:00:00, on both sides of every buffer, and the ends of the day.
ClockTimes ==
    {0, 25200, 86340} \cup
    {28800 + d : d \in {0, 60, 61, 90, 120, 121, 600, 601, 1800, 1801}} \cup
    {28800 - d : d \in {60, 61, 90, 120, 121, 600, 601, 1800, 1801}}

StartDates == {Nil} \cup {Date(86400 * d + s) : d \in 0..MaxDay, s \in ClockTimes}

UtcOffsets == {Nil, Num(0), Num(60), Num(-60)}

\* Condition values of clock times: 07:00:00, 08:00:00, 08:01:00, "28800", "x".
ClockValues ==
    {Num(25200), Num(28800), Num(28860), Str(<<"2", "8", "8", "0", "0">>), Str(<<"x">>)}

Durations == {Nil} \cup {Num(n) : n \in {0, 3480, 3540, 3600, 3660, 3720, 3721, 5401}}

DurationValues == {Num(0), Num(3600), Str(<<"3", "6", "0", "0">>), Str(<<"x">>)}

Paces == {Nil} \cup {Num(n) : n \in {0, 299, 300, 301, 320, 321, 360, 361}}

PaceValues == {Num(300), Str(<<"x">>)}

InitTimestamp ==
    \E op \in RecipeOperator :
       \/ \E d \in StartDates, o \in UtcOffsets, v \in ClockValues :
             /\ activity = [NoActivity EXCEPT !.dateStart = d, !.utcStartOffset = o]
             /\ condition = [property |-> "dateStart", operator |-> op, value |-> v]
       \/ \E m \in Durations, v \in DurationValues :
             /\ activity = [NoActivity EXCEPT !.movingTime = m]
             /\ condition = [property |-> "movingTime", operator |-> op, value |-> v]
       \/ \E m \in Paces, v \in PaceValues :
             /\ activity = [NoActivity EXCEPT !.pace = m]
             /\ condition = [property |-> "pace", operator |-> op, value |-> v]

ListChars == {"a", "b", ","}

SportTypes == {Nil} \cup {Str(s) : s \in Strings({"a", "b"}, 2)}

Gears == {Nil} \cup {Obj(s) : s \in Strings({"a", "b"}, 2) \ {<<>>}}

InitSportType ==
    /\ \E t \in SportTypes : activity = [NoActivity EXCEPT !.sportType = t]
    /\ \E op \in RecipeOperator, v \in Strings(ListChars, MaxList) :
          condition = [property |-> "sportType", operator |-> op, value |-> Str(v)]

InitGear ==
    /\ \E g \in Gears : activity = [NoActivity EXCEPT !.gear = g]
    /\ \E op \in RecipeOperator, v \in Strings(ListChars, MaxList) :
          condition = [property |-> "gear", operator |-> op, value |-> Str(v)]

WeekdayChars == {"4", "5", ","}

WeekdayDates == {Nil} \cup {Date(86400 * d + s) : d \in 0..MaxDay, s \in {0, 43200, 86340}}

InitWeekday ==
    /\ \E d \in WeekdayDates, o \in UtcOffsets :
          activity = [NoActivity EXCEPT !.dateStart = d, !.utcStartOffset = o]
    /\ \E op \in RecipeOperator, v \in Strings(WeekdayChars, MaxList) :
          condition = [property |-> "weekday", operator |-> op, value |-> Str(v)]

\* A user with no linked account and no dates.
NoUser == [spotify |-> Nil, dateLastActivity |-> Nil, dateRegistered |-> Nil]

\* A sample of a weather summary: null, or an object with the attribute
\* (Nil when it lacks it).
NoSample == [present |-> FALSE, temperature |-> Nil]

Sample(v) == [present |-> TRUE, temperature |-> v]

\* What the lookups answer, and the clock: here every lookup answers null.
NoWorld ==
    [weather |-> [status |-> "null", start |-> NoSample, end |-> NoSample],
     tracks |-> [status |-> "null", titles |-> <<>>],
     history |-> [status |-> "null", list |-> <<>>],
     now |-> 0]

WeatherProps == {"weather.temperature"}

\* Temperatures: none, 22 and 25 degrees with their unit, a text with no
\* number in it, and 22 as a number, in hundredths.
Temperatures ==
    {Nil, Str(<<"2", "2", "C">>), Str(<<"2", "5", "C">>), Str(<<"C">>), Num(2200)}

WeatherLookups ==
    LET Samples == {NoSample} \cup {Sample(v) : v \in Temperatures}
    IN  {[status |-> "ok", start |-> s, end |-> e] : s \in Samples, e \in Samples}
            \cup {[NoWorld.weather EXCEPT !.status = s] : s \in {"null", "error"}}

WeatherValues == {Num(22), Str(<<"2", "2">>), Str(<<"2", "4">>), Str(<<"x">>)}

InitWeather ==
    /\ \E l \in {Nil, Bool(FALSE), Bool(TRUE)} : activity = [NoActivity EXCEPT !.hasLocation = l]
    /\ \E op \in RecipeOperator, v \in WeatherValues :
          condition = [property |-> "weather.temperature", operator |-> op, value |-> v]
    /\ user = NoUser
    /\ sameSport = FALSE
    /\ \E w \in WeatherLookups : world = [NoWorld EXCEPT !.weather = w]

MaxTracks == 2

SpotifyProps == {"spotify.track"}

TrackTitles == {<<"a">>, <<"A", "b">>, <<"b">>}

TrackLookups ==
    {[status |-> "ok", titles |-> l] : l \in UNION {[1..n -> TrackTitles] : n \in 0..MaxTracks}}
        \cup {[NoWorld.tracks EXCEPT !.status = s] : s \in {"null", "error"}}

SpotifyValues == {<<>>, <<"a">>, <<"A">>, <<"a", "b">>, <<"b", "a">>}

InitSpotify ==
    /\ activity = NoActivity
    /\ \E op \in RecipeOperator, v \in SpotifyValues :
          condition = [property |-> "spotify.track", operator |-> op, value |-> Str(v)]
    /\ \E s \in {Nil, Obj(<<"s">>)} : user = [NoUser EXCEPT !.spotify = s]
    /\ sameSport = FALSE
    /\ \E t \in TrackLookups : world = [NoWorld EXCEPT !.tracks = t]

FirstOfDayProps == {"firstOfDay.any", "firstOfDay.same"}

\* 30 and 31 December 1970 and 1 January 1971, as days since 1970-01-01.
FirstDays == {363, 364, 365}

\* 08:00 and 10:00 of the days.
Instants == {86400 * d + s : d \in FirstDays, s \in {28800, 36000}}

\* The history holds the activity or not, and at most one other activity,
\* before or after it.
Histories(a) ==
    LET self == [id |-> a.id, dateStart |-> a.dateStart.n, sportType |-> a.sportType.s]
        others == {[id |-> 2, dateStart |-> t, sportType |-> s] :
                      t \in Instants, s \in {<<"a">>, <<"b">>}}
    IN  {<<>>, <<self>>} \cup {<<o>> : o \in others}
            \cup {<<self, o>> : o \in others} \cup {<<o, self>> : o \in others}

\* What the clock shows: noon of one of the days, or of 31 December 1971.
Nows == {86400 * d + 43200 : d \in FirstDays \cup {729}}

\* The history is looked up with an answer, with none or in vain; the
\* activity, the last activity the user is known by and the history are not
\* after now.
InitFirstOfDay ==
    /\ \E t \in Instants :
          activity = [NoActivity EXCEPT !.dateStart = Date(t), !.sportType = Str(<<"a">>)]
    /\ \E op \in RecipeOperator, v \in BOOLEAN, same \in BOOLEAN :
          /\ condition = [property |-> IF same THEN "firstOfDay.same" ELSE "firstOfDay.any",
                          operator |-> op, value |-> Bool(v)]
          /\ sameSport = same
    /\ \E last \in {Nil} \cup {Date(t) : t \in Instants} :
          user = [NoUser EXCEPT !.dateLastActivity = last,
                                !.dateRegistered = Date(86400 * 363)]
    /\ \E h \in {[status |-> "ok", list |-> l] : l \in Histories(activity)}
                    \cup {[NoWorld.history EXCEPT !.status = s] : s \in {"null", "error"}},
          n \in Nows :
          /\ n >= activity.dateStart.n
          /\ n >= lastActivityDate(user)
          /\ \A i \in 1..Len(h.list) : h.list[i].dateStart <= n
          /\ world = [NoWorld EXCEPT !.history = h, !.now = n]

NoResult == [fn |-> "none", impl |-> "none", outcome |-> "none"]

Init ==
    /\ result = NoResult
    /\ call = Idle
    /\ seen = {}
    /\ \/ /\ \/ InitText
             \/ InitNumber
             \/ InitLocation
             \/ InitTimestamp
             \/ InitSportType
             \/ InitGear
             \/ InitWeekday
          /\ user = NoUser
          /\ sameSport = FALSE
          /\ world = NoWorld
       \/ InitWeather
       \/ InitSpotify
       \/ InitFirstOfDay

-----------------------------------------------------------------------------
(* Evaluations *)

\* An evaluation that has ended: its outcome r, its lookup c, if it issued
\* one, and what the lookups of world w answered to it; the history answers
\* with getActivities of the query.
completed(r, c, w) ==
    [result |-> r,
     call |-> c,
     answer |-> IF c.fetches = 0 THEN NoWorld
                ELSE [weather |-> w.weather,
                      tracks |-> w.tracks,
                      history |-> [status |-> w.history.status,
                                   list |-> getActivities(w.history.list, c.after, c.before)],
                      now |-> 0]]

CheckText_conditions ==
    /\ condition.property \in TextProps
    /\ result' = [fn |-> "checkText", impl |-> "conditions",
                  outcome |-> checkText_conditions(activity, condition)]
    /\ UNCHANGED <<activity, condition, user, sameSport, world, call>>
    /\ seen' = seen \cup {completed(result', call', world)}

CheckText_part001 ==
    /\ condition.property \in TextProps
    /\ result' = [fn |-> "checkText", impl |-> "part001",
                  outcome |-> checkText_part001(activity, condition)]
    /\ UNCHANGED <<activity, condition, user, sameSport, world, call>>
    /\ seen' = seen \cup {completed(result', call', world)}

CheckNumber_conditions ==
    /\ condition.property \in NumberProps
    /\ result' = [fn |-> "checkNumber", impl |-> "conditions",
                  outcome |-> checkNumber_conditions(activity, condition)]
    /\ UNCHANGED <<activity, condition, user, sameSport, world, call>>
    /\ seen' = seen \cup {completed(result', call', world)}

CheckNumber_part001 ==
    /\ condition.property \in NumberProps
    /\ result' = [fn |-> "checkNumber", impl |-> "part001",
                  outcome |-> checkNumber_part001(activity, condition)]
    /\ UNCHANGED <<activity, condition, user, sameSport, world, call>>
    /\ seen' = seen \cup {completed(result', call', world)}

CheckLocation_conditions ==
    /\ condition.property \in LocationProps
    /\ result' = [fn |-> "checkLocation", impl |-> "conditions",
                  outcome |-> checkLocation_conditions(activity, condition)]
    /\ UNCHANGED <<activity, condition, user, sameSport, world, call>>
    /\ seen' = seen \cup {completed(result', call', world)}

\* A checker whose end-location fallback takes the last point off the
\* activity's own polyline.
CheckLocation_part001_pop ==
    /\ condition.property \in LocationProps
    /\ result' = [fn |-> "checkLocation", impl |-> "part001",
                  outcome |-> checkLocation_part001(activity, condition)]
    /\ activity' =
          IF /\ condition.property = "locationEnd"
             /\ truthy(activity.locationEnd)
             /\ truthy(activity.polyline)
             /\ Len(activity.locationEnd.a) = 0
          THEN [activity EXCEPT !.polyline =
                   Polyline(SubSeq(activity.polyline.p, 1, Len(activity.polyline.p) - 1))]
          ELSE activity
    /\ UNCHANGED <<condition, user, sameSport, world, call>>
    /\ seen' = seen \cup {completed(result', call', world)}

CheckLocation_part001 ==
    /\ condition.property \in LocationProps
    /\ result' = [fn |-> "checkLocation", impl |-> "part001",
                  outcome |-> checkLocation_part001(activity, condition)]
    /\ UNCHANGED <<activity, condition, user, sameSport, world, call>>
    /\ seen' = seen \cup {completed(result', call', world)}

CheckTimestamp_conditions ==
    /\ condition.property \in TimestampProps
    /\ result' = [fn |-> "checkTimestamp", impl |-> "conditions",
                  outcome |-> checkTimestamp_conditions(activity, condition)]
    /\ UNCHANGED <<activity, condition, user, sameSport, world, call>>
    /\ seen' = seen \cup {completed(result', call', world)}

CheckTimestamp_part001 ==
    /\ condition.property \in TimestampProps
    /\ result' = [fn |-> "checkTimestamp", impl |-> "part001",
                  outcome |-> checkTimestamp_part001(activity, condition)]
    /\ UNCHANGED <<activity, condition, user, sameSport, world, call>>
    /\ seen' = seen \cup {completed(result', call', world)}

CheckSportType_conditions ==
    /\ condition.property \in {"sportType"}
    /\ result' = [fn |-> "checkSportType", impl |-> "conditions",
                  outcome |-> checkSportType_conditions(activity, condition)]
    /\ UNCHANGED <<activity, condition, user, sameSport, world, call>>
    /\ seen' = seen \cup {completed(result', call', world)}

CheckSportType_part001 ==
    /\ condition.property \in {"sportType"}
    /\ result' = [fn |-> "checkSportType", impl |-> "part001",
                  outcome |-> checkSportType_part001(activity, condition)]
    /\ UNCHANGED <<activity, condition, user, sameSport, world, call>>
    /\ seen' = seen \cup {completed(result', call', world)}

CheckGear_conditions ==
    /\ condition.property \in {"gear"}
    /\ result' = [fn |-> "checkGear", impl |-> "conditions",
                  outcome |-> checkGear_conditions(activity, condition)]
    /\ UNCHANGED <<activity, condition, user, sameSport, world, call>>
    /\ seen' = seen \cup {completed(result', call', world)}

CheckWeekday_conditions ==
    /\ condition.property \in {"weekday"}
    /\ result' = [fn |-> "checkWeekday", impl |-> "conditions",
                  outcome |-> checkWeekday_conditions(activity, condition)]
    /\ UNCHANGED <<activity, condition, user, sameSport, world, call>>
    /\ seen' = seen \cup {completed(result', call', world)}

CheckWeekday_part001 ==
    /\ condition.property \in {"weekday"}
    /\ result' = [fn |-> "checkWeekday", impl |-> "part001",
                  outcome |-> checkWeekday_part001(activity, condition)]
    /\ UNCHANGED <<activity, condition, user, sameSport, world, call>>
    /\ seen' = seen \cup {completed(result', call', world)}

\* The asynchronous checkers run in two steps: up to the lookup they await,
\* and from its answer on.  A checker that returns before its lookup ends in
\* the first step.

CheckWeather_conditions ==
    /\ condition.property \in WeatherProps
    /\ call.pc = "idle"
    /\ IF ~hasLocation(activity)
       THEN /\ result' = [fn |-> "checkWeather", impl |-> "conditions", outcome |-> Ret(FALSE)]
            /\ call' = Idle
            /\ seen' = seen \cup {completed(result', call', world)}
       ELSE /\ result' = [fn |-> "checkWeather", impl |-> "conditions", outcome |-> "pending"]
            /\ call' = Awaiting(Nil, Nil)
            /\ UNCHANGED seen
    /\ UNCHANGED <<activity, condition, user, sameSport, world>>

ResumeWeather_conditions ==
    /\ call.pc = "awaiting"
    /\ result.fn = "checkWeather"
    /\ result.impl = "conditions"
    /\ result' = [result EXCEPT !.outcome = weather_conditions(world.weather, condition)]
    /\ call' = [call EXCEPT !.pc = "idle"]
    /\ seen' = seen \cup {completed(result', call', world)}
    /\ UNCHANGED <<activity, condition, user, sameSport, world>>

CheckWeather_part001 ==
    /\ condition.property \in WeatherProps
    /\ call.pc = "idle"
    /\ IF ~hasLocation(activity)
       THEN /\ result' = [fn |-> "checkWeather", impl |-> "part001", outcome |-> Ret(FALSE)]
            /\ call' = Idle
            /\ seen' = seen \cup {completed(result', call', world)}
       ELSE /\ result' = [fn |-> "checkWeather", impl |-> "part001", outcome |-> "pending"]
            /\ call' = Awaiting(Nil, Nil)
            /\ UNCHANGED seen
    /\ UNCHANGED <<activity, condition, user, sameSport, world>>

ResumeWeather_part001 ==
    /\ call.pc = "awaiting"
    /\ result.fn = "checkWeather"
    /\ result.impl = "part001"
    /\ result' = [result EXCEPT !.outcome = weather_part001(world.weather, condition)]
    /\ call' = [call EXCEPT !.pc = "idle"]
    /\ seen' = seen \cup {completed(result', call', world)}
    /\ UNCHANGED <<activity, condition, user, sameSport, world>>

CheckSpotify_conditions ==
    /\ condition.property \in SpotifyProps
    /\ call.pc = "idle"
    /\ IF ~hasSpotify(user)
       THEN /\ result' = [fn |-> "checkSpotify", impl |-> "conditions", outcome |-> Ret(FALSE)]
            /\ call' = Idle
            /\ seen' = seen \cup {completed(result', call', world)}
       ELSE /\ result' = [fn |-> "checkSpotify", impl |-> "conditions", outcome |-> "pending"]
            /\ call' = Awaiting(Nil, Nil)
            /\ UNCHANGED seen
    /\ UNCHANGED <<activity, condition, user, sameSport, world>>

ResumeSpotify_conditions ==
    /\ call.pc = "awaiting"
    /\ result.fn = "checkSpotify"
    /\ result' = [result EXCEPT !.outcome = spotify_conditions(world.tracks, condition)]
    /\ call' = [call EXCEPT !.pc = "idle"]
    /\ seen' = seen \cup {completed(result', call', world)}
    /\ UNCHANGED <<activity, condition, user, sameSport, world>>

CheckFirstOfDay_conditions ==
    /\ condition.property \in FirstOfDayProps
    /\ call.pc = "idle"
    /\ IF queriesHistory(activity, user, sameSport)
       THEN /\ result' = [fn |-> "checkFirstOfDay", impl |-> "conditions", outcome |-> "pending"]
            /\ call' = query(activity, world.now)
            /\ UNCHANGED seen
       ELSE /\ result' = [fn |-> "checkFirstOfDay", impl |-> "conditions",
                          outcome |-> firstOfDayVerdict(isFirst(activity, user), condition)]
            /\ call' = Idle
            /\ seen' = seen \cup {completed(result', call', world)}
    /\ UNCHANGED <<activity, condition, user, sameSport, world>>

ResumeFirstOfDay_conditions ==
    /\ call.pc = "awaiting"
    /\ result.fn = "checkFirstOfDay"
    /\ result' = [result EXCEPT !.outcome =
                     firstOfDay_conditions(world.history, call, activity, condition, sameSport)]
    /\ call' = [call EXCEPT !.pc = "idle"]
    /\ seen' = seen \cup {completed(result', call', world)}
    /\ UNCHANGED <<activity, condition, user, sameSport, world>>

\* Time passes between and during the evaluations.  The clock is kept for
\* the conditions of the one checker that reads it, checkFirstOfDay.
Tick ==
    /\ condition.property \in FirstOfDayProps
    /\ \E n \in Nows :
          /\ n > world.now
          /\ world' = [world EXCEPT !.now = n]
    /\ UNCHANGED <<activity, condition, user, sameSport, call, result, seen>>

Next ==
    \/ CheckText_conditions
    \/ CheckText_part001
    \/ CheckNumber_conditions
    \/ CheckNumber_part001
    \/ CheckLocation_conditions
    \/ CheckLocation_part001
    \/ CheckTimestamp_conditions
    \/ CheckTimestamp_part001
    \/ CheckSportType_conditions
    \/ CheckSportType_part001
    \/ CheckGear_conditions
    \/ CheckWeekday_conditions
    \/ CheckWeekday_part001
    \/ CheckWeather_conditions
    \/ ResumeWeather_conditions
    \/ CheckWeather_part001
    \/ ResumeWeather_part001
    \/ CheckSpotify_conditions
    \/ ResumeSpotify_conditions
    \/ CheckFirstOfDay_conditions
    \/ ResumeFirstOfDay_conditions
    \/ Tick

Spec == Init /\ [][Next]_vars

-----------------------------------------------------------------------------
(* What the claims speak of *)

\* The activity field the condition targets.
field == activity[condition.property]

op == condition.operator

Evaluated(fn) == result.fn = fn

Returned(b) == result.outcome = Ret(b)

\* Two characters that are the same letter, whatever their case.
CasePairs == {<<"a", "A">>, <<"A", "a">>, <<"b", "B">>, <<"B", "b">>}

SameLetter(c, d) == c = d \/ <<c, d>> \in CasePairs

EqualIgnoringCase(x, y) ==
    Len(x) = Len(y) /\ \A i \in 1..Len(x) : SameLetter(x[i], y[i])

ContainsIgnoringCase(x, y) ==
    \E k \in 0..(Len(x) - Len(y)) : \A j \in 1..Len(y) : SameLetter(x[k + j], y[j])

\* The number of a numeric field, in hundredths: an array counts as its length.
FieldNumber == IF field.t = "arr" THEN 100 * Len(field.a) ELSE field.n

\* The condition values of the number conditions, in hundredths, for those
\* that are numbers or write one.
NumberValueTable ==
    {<<Str(<<"1">>), 100>>, <<Str(<<"1", ".", "4">>), 140>>, <<Str(<<"1", "a">>), 100>>,
     <<Str(<<".", "5">>), 50>>, <<Str(<<"-", "1">>), -100>>}

IsNumberValue(v) == v.t = "num" \/ \E e \in NumberValueTable : e[1] = v

NumberValue(v) ==
    IF v.t = "num" THEN v.n ELSE (CHOOSE e \in NumberValueTable : e[1] = v)[2]

\* The nearest integer to n hundredths, in hundredths of it doubled: two
\* numbers round alike iff they lie in the same interval [k - 0.5, k + 0.5).
RoundsTo(n, k) == 100 * k - 50 <= n /\ n < 100 * k + 50

RoundAlike(m, n) == \E k \in -2..((MaxNum \div 100) + 2) : RoundsTo(m, k) /\ RoundsTo(n, k)

-----------------------------------------------------------------------------
(* C1 *)

\* C1: an operator a property family does not define raises an error: with
\* the targeted field present, checkText with GreaterThan or LessThan and
\* checkLocation with NotEqual, GreaterThan or LessThan end in a raised
\* error, never in a verdict.
C1_UnsupportedOperatorRaises ==
    /\ (Evaluated("checkText") /\ ~isNil(field) /\ op \in {GreaterThan, LessThan})
          => result.outcome = Raised
    /\ (Evaluated("checkLocation") /\ ~isNil(field) /\ op \in {NotEqual, GreaterThan, LessThan})
          => result.outcome = Raised

-----------------------------------------------------------------------------
(* C2 *)

\* C2: no checker returns true on an operator it does not define: checkNumber
\* with NotLike, checkTimestamp with NotEqual or NotLike, and checkText with
\* NotEqual or Approximate never return true.
C2_NoSilentSuccess ==
    /\ (Evaluated("checkNumber") /\ op = NotLike) => result.outcome # "true"
    /\ (Evaluated("checkTimestamp") /\ op \in {NotEqual, NotLike}) => result.outcome # "true"
    /\ (Evaluated("checkText") /\ op \in {NotEqual, Approximate}) => result.outcome # "true"

-----------------------------------------------------------------------------
(* C3 *)

\* C3: for a present text field a and a condition value v, checkText returns
\* with Equal whether a and v are the same text up to case, with Like whether
\* a contains v up to case, and with NotLike the negation of the Like verdict.
C3_TextVerdicts ==
    (Evaluated("checkText") /\ ~isNil(field)) =>
        LET a == field.s
            v == condition.value.s
        IN  /\ op = Equal => Returned(EqualIgnoringCase(a, v))
            /\ op = Like => Returned(ContainsIgnoringCase(a, v))
            /\ op = NotLike => Returned(~ContainsIgnoringCase(a, v))

\* Like has matched a text that contains the value only up to case: "bA" in
\* the field, "a" in the value.
C3_Witness ==
    /\ Evaluated("checkText")
    /\ op = Like
    /\ field = Str(<<"b", "A">>)
    /\ condition.value = Str(<<"a">>)
    /\ Returned(TRUE)

-----------------------------------------------------------------------------
(* C4 *)

\* C4: for a present numeric value a and a condition value v, checkNumber
\* returns true with Approximate iff v*0.97 <= a <= v*1.03, with Like iff
\* v*0.9 <= a <= v*1.1, with GreaterThan iff a > v, with LessThan iff a < v.
C4_NumberTolerances ==
    (Evaluated("checkNumber") /\ ~isNil(field) /\ IsNumberValue(condition.value)) =>
        LET a == FieldNumber
            v == NumberValue(condition.value)
        IN  /\ op = Approximate => Returned(97 * v <= 100 * a /\ 100 * a <= 103 * v)
            /\ op = Like => Returned(90 * v <= 100 * a /\ 100 * a <= 110 * v)
            /\ op = GreaterThan => Returned(a > v)
            /\ op = LessThan => Returned(a < v)

-----------------------------------------------------------------------------
(* C5 *)

\* C5: checkNumber with Equal returns true iff the activity value and the
\* condition value round to the same nearest integer, in every implementation.
C5_EqualRounds ==
    (Evaluated("checkNumber") /\ ~isNil(field) /\ IsNumberValue(condition.value) /\ op = Equal) =>
        Returned(RoundAlike(FieldNumber, NumberValue(condition.value)))

-----------------------------------------------------------------------------
(* C6 *)

\* The targets the location condition values write, in micro-degrees: "1,2",
\* "1.000556,2" and "1,2,3"; the other values write no coordinate pair.
LocationTargetTable ==
    {<<Str(<<"1", ",", "2">>), <<1000000, 2000000>>>>,
     <<Str(<<"1", ".", "0", "0", "0", "5", "5", "6", ",", "2">>), <<1000556, 2000000>>>>,
     <<Str(<<"1", ",", "2", ",", "3">>), <<1000000, 2000000>>>>}

HasTarget(v) == \E e \in LocationTargetTable : e[1] = v

Target(v) == (CHOOSE e \in LocationTargetTable : e[1] = v)[2]

Radius(o) ==
    CASE o = Equal -> 556
      [] o = Approximate -> 2735
      [] o = Like -> 5926

\* The sum of axis i of the first k deltas of a polyline.
RECURSIVE SumTo(_, _, _)
SumTo(p, k, i) == IF k = 0 THEN 0 ELSE p[k][i] + SumTo(p, k - 1, i)

\* The points an encoded polyline decodes to, in micro-degrees.
PolylinePoint(p, k) == <<10 * SumTo(p, k, 1), 10 * SumTo(p, k, 2)>>

PolylinePoints(p) == {PolylinePoint(p, k) : k \in 1..Len(p)}

\* The end location is an empty list and a polyline is there.
EmptyEndWithPolyline ==
    /\ condition.property = "locationEnd"
    /\ field.t = "arr" /\ Len(field.a) = 0
    /\ activity.polyline.t = "polyline" /\ Len(activity.polyline.p) > 0

\* The candidate set as the claim gives it: the single point of the targeted
\* property, or every decoded point when the property is the polyline.
StatedCandidates ==
    IF isNil(field) THEN {}
    ELSE IF condition.property = "polyline" THEN PolylinePoints(field.p)
    ELSE IF Len(field.a) = 2 THEN {<<field.a[1], field.a[2]>>}
    ELSE {}

\* The candidate set with the end-location fallback of part_001: the last
\* decoded point of the polyline stands in for an empty end location.
Candidates ==
    IF EmptyEndWithPolyline /\ result.impl = "part001"
    THEN {PolylinePoint(activity.polyline.p, Len(activity.polyline.p))}
    ELSE StatedCandidates

SomeCandidateInBox(cands) ==
    /\ HasTarget(condition.value)
    /\ \E pt \in cands :
          /\ Abs(pt[1] - Target(condition.value)[1]) <= Radius(op)
          /\ Abs(pt[2] - Target(condition.value)[2]) <= Radius(op)

\* C6 as stated: for Equal, Approximate and Like, with radius 0.000556,
\* 0.002735 and 0.005926, checkLocation returns true iff at least one
\* coordinate of the candidate set (the single point of the targeted property,
\* or every decoded polyline point when the property is the polyline) lies
\* within the radius of the target on both axes.
C6_Original ==
    (Evaluated("checkLocation") /\ op \in {Equal, Approximate, Like}) =>
        Returned(SomeCandidateInBox(StatedCandidates))

\* C6 as amended: the same, the candidate set being, in the implementation
\* with the end-location fallback (part_001), the last decoded polyline point
\* when the property is locationEnd, locationEnd is an empty list and a
\* polyline is present.
C6_LocationVerdict ==
    (Evaluated("checkLocation") /\ op \in {Equal, Approximate, Like}) =>
        Returned(SomeCandidateInBox(Candidates))

\* A polyline whose first point is out of every radius and whose second point
\* is the target has satisfied Equal.
C6_Witness ==
    /\ Evaluated("checkLocation")
    /\ condition.property = "polyline"
    /\ op = Equal
    /\ field = Polyline(<< <<101000, 200000>>, <<-1000, 0>> >>)
    /\ condition.value = Str(<<"1", ",", "2">>)
    /\ Returned(TRUE)

-----------------------------------------------------------------------------
(* C7 *)

\* The clock-time condition values that are numbers or write one, in seconds.
IsClockValue(v) == v.t = "num" \/ v = Str(<<"2", "8", "8", "0", "0">>)

ClockValue(v) == IF v.t = "num" THEN v.n ELSE 28800

\* The start date plus utcStartOffset minutes, in seconds.
LocalStart ==
    activity.dateStart.n + 60 * (IF isNil(activity.utcStartOffset) THEN 0 ELSE activity.utcStartOffset.n)

\* C7: for dateStart, checkTimestamp reduces the start date plus
\* utcStartOffset minutes to seconds since local midnight t, and with Equal
\* returns true iff |t - value| <= 120.
C7_ClockEqual ==
    (/\ Evaluated("checkTimestamp")
     /\ condition.property = "dateStart"
     /\ ~isNil(field)
     /\ op = Equal
     /\ IsClockValue(condition.value)) =>
        Returned(Abs((LocalStart % 86400) - ClockValue(condition.value)) <= 120)

-----------------------------------------------------------------------------
(* C8 *)

\* x is one of the comma-separated members of the list L.
Member(x, L) ==
    /\ \A i \in 1..Len(x) : x[i] # ","
    /\ \E i \in 1..(Len(L) + 1) :
          /\ i + Len(x) - 1 <= Len(L)
          /\ \A j \in 1..Len(x) : L[i + j - 1] = x[j]
          /\ i = 1 \/ L[i - 1] = ","
          /\ i + Len(x) - 1 = Len(L) \/ L[i + Len(x)] = ","

\* The activity has the attribute (a sport type, a gear), and it is not empty.
HasAttribute == ~isNil(field) /\ field.s # <<>>

\* C8: for checkSportType and checkGear with an allow-list L, Equal returns
\* true iff the activity's sport type / gear id is a member of L; NotEqual
\* returns true iff the activity has no such attribute or it is not a member.
C8_AllowList ==
    (Evaluated("checkSportType") \/ Evaluated("checkGear")) =>
        LET member == HasAttribute /\ Member(field.s, condition.value.s)
        IN  /\ op = Equal => Returned(member)
            /\ op = NotEqual => Returned(~member)

-----------------------------------------------------------------------------
(* C9 *)

\* The weekday of the start date moved by utcStartOffset minutes, 0 Sunday.
Weekday == ((LocalStart \div 86400) + 4) % 7

\* C9: checkWeekday, for an activity with a start date, returns true with
\* Equal iff the weekday number is a member of the list, and with any other
\* operator raises an error; with no start date it returns false.
C9_Weekday ==
    Evaluated("checkWeekday") =>
        IF isNil(activity.dateStart) THEN Returned(FALSE)
        ELSE IF op = Equal
             THEN Returned(Member(<<DigitChars[Weekday + 1]>>, condition.value.s))
             ELSE result.outcome = Raised

-----------------------------------------------------------------------------
(* C10 *)

\* C10: with the targeted field absent, checkText, checkNumber, checkLocation
\* and checkTimestamp return false for every operator and value, without
\* raising; and a field that holds 0 is not treated as missing: it is
\* compared with the condition value, here by GreaterThan and LessThan.
C10_MissingData ==
    /\ (/\ result.fn \in {"checkText", "checkNumber", "checkLocation", "checkTimestamp"}
        /\ isNil(field)) => Returned(FALSE)
    /\ (/\ result.fn \in {"checkNumber", "checkTimestamp"}
        /\ field = Num(0)
        /\ condition.value.t = "num") =>
          /\ op = GreaterThan => Returned(0 > condition.value.n)
          /\ op = LessThan => Returned(0 < condition.value.n)

-----------------------------------------------------------------------------
(* C11 *)

\* The condition values that write no number: parsing them gives NaN.
Unparseable(v) == v.t = "str" /\ v.s \in {<<>>, <<"a">>, <<"x">>}

\* C11: when the condition value cannot be parsed as a number, checkNumber
\* and checkTimestamp never return true, for any operator and any activity
\* value.
C11_ParseFailureNeverTrue ==
    (/\ result.fn \in {"checkNumber", "checkTimestamp"}
     /\ Unparseable(condition.value)) => result.outcome # "true"

-----------------------------------------------------------------------------
(* What the claims on the asynchronous checkers speak of *)

\* The evaluation of checker fn has returned or raised.
Done(fn) == result.fn = fn /\ call.pc = "idle"

\* The lookup was issued and has answered.
Answered(fn) == Done(fn) /\ call.fetches = 1

NoLocation == activity.hasLocation \in {Nil, Bool(FALSE)}

NoAccount == user.spotify = Nil

-----------------------------------------------------------------------------
(* C12 *)

\* C12: in checkWeather, when activity.hasLocation is false the verdict is
\* false and weather.getActivityWeather is not called at any point of the
\* evaluation, for every operator and condition value.
C12_NoLocationNoLookup ==
    (Evaluated("checkWeather") /\ NoLocation) =>
        /\ Returned(FALSE)
        /\ call.pc = "idle"
        /\ call.fetches = 0

C12_Witness ==
    /\ Evaluated("checkWeather")
    /\ activity.hasLocation = Bool(FALSE)
    /\ world.weather.status = "ok"
    /\ world.weather.start.present
    /\ Returned(FALSE)
    /\ call.fetches = 0

-----------------------------------------------------------------------------
(* C13 *)

\* The temperatures that are numbers or write one, in degrees.
DegreesTable ==
    {<<Str(<<"2", "2", "C">>), 22>>, <<Str(<<"2", "5", "C">>), 25>>, <<Num(2200), 22>>}

\* The condition values of the weather conditions that are numbers or write one.
WeatherValueTable == {<<Num(22), 22>>, <<Str(<<"2", "2">>), 22>>, <<Str(<<"2", "4">>), 24>>}

\* A sample that is present, carries the attribute and satisfies the
\* comparison of the condition.
Satisfies(sample) ==
    /\ sample.present
    /\ \E d \in DegreesTable, v \in WeatherValueTable :
          /\ d[1] = sample.temperature
          /\ v[1] = condition.value
          /\ CASE op = Equal -> d[2] = v[2]
               [] op = GreaterThan -> d[2] > v[2]
               [] op = LessThan -> d[2] < v[2]
               [] OTHER -> FALSE

\* C13: in checkWeather with a fetched summary, for Equal, GreaterThan and
\* LessThan the verdict is true iff at least one of the samples start and end
\* that is present and carries the attribute satisfies the comparison; the
\* evaluation returns a boolean, and does not raise, whichever samples are
\* present.
C13_EitherSample ==
    (/\ Answered("checkWeather")
     /\ world.weather.status = "ok"
     /\ op \in {Equal, GreaterThan, LessThan}) =>
        Returned(Satisfies(world.weather.start) \/ Satisfies(world.weather.end))

-----------------------------------------------------------------------------
(* C14 *)

\* The lookup of checker fn failed, or answered with nothing.
LookupFailed(fn) ==
    CASE fn = "checkWeather" -> world.weather.status \in {"error", "null"}
      [] fn = "checkSpotify" ->
            world.tracks.status \in {"error", "null"} \/ world.tracks.titles = <<>>
      [] fn = "checkFirstOfDay" ->
            world.history.status \in {"error", "null"} \/ world.history.list = <<>>
      [] OTHER -> FALSE

\* C14: when the lookup of an asynchronous checker fails with an error or
\* answers with null or nothing, the checker returns false and raises no
\* error towards its caller.
C14_LookupFailureIsFalse ==
    \A fn \in {"checkWeather", "checkSpotify", "checkFirstOfDay"} :
        (Answered(fn) /\ LookupFailed(fn)) => Returned(FALSE)

-----------------------------------------------------------------------------
(* C15 *)

\* C15: in checkSpotify, when the user has no linked account the verdict is
\* false for Equal and Like and true for NotLike, and no lookup of tracks is
\* issued.
C15_NoAccount ==
    (Evaluated("checkSpotify") /\ NoAccount) =>
        /\ call.pc = "idle"
        /\ call.fetches = 0
        /\ op \in {Equal, Like} => Returned(FALSE)
        /\ op = NotLike => Returned(TRUE)

-----------------------------------------------------------------------------
(* C16 *)

\* C16: in checkSpotify with a linked account and a list of tracks that is
\* not empty, Equal is true iff some title equals the condition value up to
\* case, Like is true iff some title contains it up to case, and NotLike is
\* true when no title contains it.
C16_TrackVerdicts ==
    (/\ Answered("checkSpotify")
     /\ world.tracks.status = "ok"
     /\ world.tracks.titles # <<>>) =>
        LET titles == world.tracks.titles
            v == condition.value.s
            someEqual == \E i \in 1..Len(titles) : EqualIgnoringCase(titles[i], v)
            someContains == \E i \in 1..Len(titles) : ContainsIgnoringCase(titles[i], v)
        IN  /\ op = Equal => Returned(someEqual)
            /\ op = Like => Returned(someContains)
            /\ (op = NotLike /\ ~someContains) => Returned(TRUE)

-----------------------------------------------------------------------------
(* C17 *)

\* The number of the UTC day of an instant.
DayNumber(t) == t \div 86400

\* The history holds the activity and another one of the same UTC day that
\* starts at time t, another time than the activity.
OtherOfTheDay(t) ==
    /\ \E i \in 1..Len(world.history.list) :
          /\ world.history.list[i].id = activity.id
          /\ world.history.list[i].dateStart = activity.dateStart.n
    /\ \E i \in 1..Len(world.history.list) :
          /\ world.history.list[i].id # activity.id
          /\ world.history.list[i].dateStart = t
    /\ DayNumber(t) = DayNumber(activity.dateStart.n)
    /\ t # activity.dateStart.n

Earlier(t, u) == IF t < u THEN t ELSE u

\* C17: of two activities of one user on the same UTC day with different
\* start times, both in the history, with a last known activity not earlier
\* than the start of the earlier one, checkFirstOfDay with sameSport false,
\* Equal and true returns true for the earlier and false for the later.
C17_OnlyTheEarliest ==
    \A t \in Instants :
        (/\ Done("checkFirstOfDay")
         /\ ~sameSport
         /\ op = Equal
         /\ condition.value = Bool(TRUE)
         /\ world.history.status = "ok"
         /\ OtherOfTheDay(t)
         /\ user.dateLastActivity # Nil
         /\ user.dateLastActivity.n >= Earlier(t, activity.dateStart.n)) =>
            Returned(activity.dateStart.n < t)

-----------------------------------------------------------------------------
(* C18 *)

\* The last activity the user is known by, or the registration.
LastKnown == IF user.dateLastActivity # Nil THEN user.dateLastActivity.n ELSE user.dateRegistered.n

\* C18: checkFirstOfDay declares an activity first without a lookup of the
\* history only when its UTC day is strictly later than the day of the last
\* known activity: with Equal and true, a verdict true reached without a
\* lookup implies the later day.
C18_FastPathOnlyLater ==
    (/\ Done("checkFirstOfDay")
     /\ call.fetches = 0
     /\ op = Equal
     /\ condition.value = Bool(TRUE)
     /\ Returned(TRUE)) =>
        DayNumber(activity.dateStart.n) > DayNumber(LastKnown)

-----------------------------------------------------------------------------
(* C19 *)

\* The isFirst the evaluation has computed: the fast path's, or the one from
\* the history when it was looked up.
ComputedIsFirst ==
    IF call.fetches = 0 THEN isFirst(activity, user)
    ELSE isFirstOfList(world.history, call, activity, sameSport)

\* C19: checkFirstOfDay compares isFirst with the boolean value of the
\* condition: with Equal the verdict is true iff isFirst equals the value,
\* and with NotEqual iff the activity is not first and the value is not true.
C19_ComparesWithValue ==
    (Done("checkFirstOfDay") /\ result.outcome # Raised) =>
        /\ op = Equal => Returned(ComputedIsFirst = (condition.value = Bool(TRUE)))
        /\ op = NotEqual => Returned(~ComputedIsFirst /\ condition.value # Bool(TRUE))

-----------------------------------------------------------------------------
(* C20 *)

AsyncCheckers == {"checkWeather", "checkSpotify", "checkFirstOfDay"}

\* The evaluation returns before its lookup: no location, no linked account,
\* or a history that is not looked up, because the day of the year or the
\* year of the activity exceeds that of the last known activity, or because
\* sameSport is false and the last known activity is not after the activity.
ReturnsBeforeLookup ==
    CASE result.fn = "checkWeather" -> NoLocation
      [] result.fn = "checkSpotify" -> NoAccount
      [] result.fn = "checkFirstOfDay" ->
            \/ dayOfYear(activity.dateStart.n) > dayOfYear(LastKnown)
            \/ year(activity.dateStart.n) > year(LastKnown)
            \/ (~sameSport /\ LastKnown <= activity.dateStart.n)
      [] OTHER -> TRUE

\* C20 as stated: every evaluation of an asynchronous checker has issued
\* exactly one lookup when it returns.
C20_Original ==
    (result.fn \in AsyncCheckers /\ call.pc = "idle") => call.fetches = 1

\* C20: every evaluation of checkWeather, checkSpotify or checkFirstOfDay
\* issues at most one lookup before it returns: none when it returns before
\* its lookup, and exactly one otherwise.
C20_AtMostOneFetch ==
    /\ call.fetches <= 1
    /\ (result.fn \in AsyncCheckers /\ call.pc = "awaiting") => call.fetches = 1
    /\ (result.fn \in AsyncCheckers /\ call.pc = "idle") =>
          call.fetches = IF ReturnsBeforeLookup THEN 0 ELSE 1

C20_Witness ==
    /\ Answered("checkSpotify")
    /\ world.tracks.status = "ok"
    /\ Len(world.tracks.titles) = MaxTracks
    /\ Returned(TRUE)

-----------------------------------------------------------------------------
(* C21 *)

\* C21: no checker changes its inputs: every step of every evaluation,
\* returning or raising, awaiting a lookup or resuming from it, leaves the
\* activity, with its polyline and locationEnd, the condition and the user
\* as they were.
C21_InputsUnchanged ==
    [][activity' = activity /\ condition' = condition /\ user' = user]_vars

\* Both implementations of checkLocation have run on an empty end location
\* with a polyline, and the fallback of part_001 has found the target.
C21_Witness ==
    /\ Evaluated("checkLocation")
    /\ result.impl = "part001"
    /\ EmptyEndWithPolyline
    /\ Len(activity.polyline.p) = MaxPoly
    /\ Returned(TRUE)
    /\ Cardinality(seen) = 2

-----------------------------------------------------------------------------
(* C22 *)

-----------------------------------------------------------------------------
(* C23 *)

\* C23: when the condition targets locationEnd, locationEnd is an empty list
\* and a polyline is present, checkLocation tests the last decoded point of
\* the polyline: with Equal, Approximate and Like the verdict is true iff
\* that point lies within the operator's radius of the target.
C23_EndFallback ==
    (/\ Evaluated("checkLocation")
     /\ EmptyEndWithPolyline
     /\ op \in {Equal, Approximate, Like}) =>
        Returned(SomeCandidateInBox({PolylinePoint(activity.polyline.p, Len(activity.polyline.p))}))

-----------------------------------------------------------------------------
(* C24 *)

\* The outcome of the checker and implementation last evaluated, on the same
\* activity and condition value, with operator o.
OutcomeWith(o) ==
    LET c == [condition EXCEPT !.operator = o]
    IN  CASE result.fn = "checkNumber" /\ result.impl = "conditions" -> checkNumber_conditions(activity, c)
          [] result.fn = "checkNumber" /\ result.impl = "part001" -> checkNumber_part001(activity, c)
          [] result.fn = "checkTimestamp" /\ result.impl = "conditions" -> checkTimestamp_conditions(activity, c)
          [] result.fn = "checkTimestamp" /\ result.impl = "part001" -> checkTimestamp_part001(activity, c)
          [] result.fn = "checkLocation" /\ result.impl = "conditions" -> checkLocation_conditions(activity, c)
          [] result.fn = "checkLocation" /\ result.impl = "part001" -> checkLocation_part001(activity, c)
          [] OTHER -> "none"

\* C24: tolerances are nested: for the same activity and condition value,
\* in checkTimestamp and checkLocation whenever Equal returns true
\* Approximate returns true, and in checkTimestamp, checkLocation and
\* checkNumber whenever Approximate returns true Like returns true.
C24_NestedTolerances ==
    /\ (/\ result.fn \in {"checkTimestamp", "checkLocation"}
        /\ op = Equal
        /\ Returned(TRUE)) => OutcomeWith(Approximate) = Ret(TRUE)
    /\ (/\ result.fn \in {"checkTimestamp", "checkLocation", "checkNumber"}
        /\ op = Approximate
        /\ Returned(TRUE)) => OutcomeWith(Like) = Ret(TRUE)

====
